---------------------------- MODULE Spec2Model ----------------------------
(***************************************************************************)
(* A model of the FAT32 recovery package (fat.go): the allocation table,   *)
(* the reconstruction of cluster chains (GetAllChains and                  *)
(* followChainBackwards), the cluster-to-offset mapping (GetDataOffset)    *)
(* and the two chain readers (GetChainReader, chainReader.Read); the       *)
(* opening of a volume (NewFAT32Filesystem: header, FSInfo, table), the    *)
(* window reader (LimitReadSeeker, its Seek and Read) and the position of  *)
(* the source that all readers of a volume share.                          *)
(*                                                                         *)
(* Representation of Go's integer types.                                   *)
(*  - A uint32 held in the allocation table or in the reversed table is a  *)
(*    record [hi, lo]: hi is the top 4 bits (0..15), lo the low 28 bits.   *)
(*    Its value is hi * 2^28 + lo.  All of the code's comparisons on such  *)
(*    values are against numbers below 2^28 or against other table values, *)
(*    so they are decided on the record exactly as on the 32-bit number.   *)
(*  - Cluster numbers used as indices are naturals below 2^28.             *)
(*  - An int64 byte offset into the image is a record [sector, byte] with  *)
(*    value sector * SectorSize + byte, 0 <= byte < SectorSize.            *)
(***************************************************************************)
EXTENDS Integers, Naturals, Sequences, FiniteSets, TLC

\* ------------------------------------------------------------------ bounds

\* The number of Read calls made on one reader.
MaxReads == 3

\* clusterCount of the volumes of Init (table indices 2 .. MaxClusters-1 are
\* the data clusters).
MaxClusters == 5

\* The number of windows opened on top of a window on the image.
MaxNesting == 2

\* The number of readers opened on one volume that share its source.
MaxSharers == 2

\* ------------------------------------------------------- program constants

\* const SectorSize = 512
SectorSize == 512

\* The mask 0x0fffffff + 1 = 2^28: a table value is hi * TwoTo28 + lo.
TwoTo28 == 268435456

\* 0x0ffffff7, the literal chainReader.Read compares a link against.
BadClusterMark == 268435447

\* ------------------------------------------------------------ uint32 values

U32(n) == [hi |-> 0, lo |-> n]

\* The reversed table left as make() returns it, all zero (the loop that
\* stores 0xffffffff omitted): cluster 0 is then its own predecessor.
NoPredecessor_zero == [hi |-> 0, lo |-> 0]

\* 0xffffffff: the "no predecessor" symbol GetAllChains fills reversedFAT with.
NoPredecessor == [hi |-> 15, lo |-> TwoTo28 - 1]

\* v & 0x0fffffff, as a natural.
Low28(v) == v.lo

\* v < n for a uint32 v and a natural n < 2^28.
U32Less(v, n) == v.hi = 0 /\ v.lo < n

\* v == n for a uint32 v and a natural n < 2^28.
U32Is(v, n) == v.hi = 0 /\ v.lo = n

\* --------------------------------------------------------------- variables

VARIABLES
    Header,     \* FAT32Filesystem.Header: the BPB and EBR fields the code reads
    FAT,        \* FAT32Filesystem.FAT: the loaded allocation table
    chains,     \* what the last GetAllChains call returned, or NoCall
    cut,        \* the entry a corruption scenario replaced by 0, or NoCut
    opened,     \* the last GetChainReader call: its chain, its error, or NoOpen
    reader,     \* the reader GetChainReader returned, or NoReader
    walker,     \* a chainReader over the same chain (fast path not taken)
    last,       \* the last Read call on reader (and walker), or NoRead
    reads,      \* the number of Read calls made on reader
    offs,       \* the last GetDataOffset call and its result, or NoOffset
    image,      \* what the source handed to NewFAT32Filesystem holds, or NoImage
    volume,     \* what the last NewFAT32Filesystem call returned, or NoVolume
    cursor,     \* the read position of the source (FAT32Filesystem.Content)
    sharers     \* the readers that share the source, in the order opened

vars == <<Header, FAT, chains, cut, opened, reader, walker, last, reads, offs,
          image, volume, cursor, sharers>>

\* The variables of the scenarios on opening a volume and on sharing a source.
openVars == <<image, volume>>
sharedVars == <<cursor, sharers>>

NoCall == [called |-> FALSE]
NoCut == [made |-> FALSE]
NoOpen == [made |-> FALSE]
NoReader == [kind |-> "none"]
NoRead == [made |-> FALSE]
NoOffset == [made |-> FALSE]
NoImage == [given |-> FALSE]
NoVolume == [made |-> FALSE]

\* loadFAT: fatEntryCount = SectorsPerFAT * SectorSize / 4.
FATEntryCount(h) == (h.EBR.SectorsPerFAT * SectorSize) \div 4

\* clusterCount := LargeSectorCount / SectorsPerCluster  (GetAllChains).
ClusterCount(h) == h.BPB.LargeSectorCount \div h.BPB.SectorsPerCluster

\* GetClusterSize: SectorsPerCluster * SectorSize.
GetClusterSize(h) == h.BPB.SectorsPerCluster * SectorSize

\* The position of the source when NewFAT32Filesystem returns: loadFAT has
\* read SectorsPerFAT sectors from sector ReservedSectorCount on.
AfterLoad(h) ==
    [sector |-> h.BPB.ReservedSectorCount + h.EBR.SectorsPerFAT, byte |-> 0]

\* ------------------------------------------------ chain reconstruction

\* The zero value of a FATChain, as make([]FATChain, n) holds it.
ZeroChain ==
    [StartCluster |-> 0, Contiguous |-> FALSE, SizeHigh |-> 0, Size |-> 0]

\* The first loop of followChainBackwards:
\*   for reversedFAT[startCluster] < clusterCount { startCluster = ...; chainEntries++ }
\* fuel counts the iterations left before the walk has provably revisited a
\* cluster (more steps than table entries): then it never ends, and the
\* result says so.
RECURSIVE WalkBack(_, _, _, _, _)

\* The backward loop stepping to the previous cluster number, as if every
\* chain were laid out contiguously, where the code steps to
\* reversedFAT[startCluster].
WalkBack_toPreviousCluster(startCluster, chainEntries, clusterCount, reversedFAT, fuel) ==
    IF U32Less(reversedFAT[startCluster], clusterCount)
    THEN IF fuel = 0
         THEN [ends |-> FALSE, startCluster |-> startCluster,
               chainEntries |-> chainEntries]
         ELSE WalkBack(startCluster - 1, chainEntries + 1,
                       clusterCount, reversedFAT, fuel - 1)
    ELSE [ends |-> TRUE, startCluster |-> startCluster,
          chainEntries |-> chainEntries]

WalkBack(startCluster, chainEntries, clusterCount, reversedFAT, fuel) ==
    IF U32Less(reversedFAT[startCluster], clusterCount)
    THEN IF fuel = 0
         THEN [ends |-> FALSE, startCluster |-> startCluster,
               chainEntries |-> chainEntries]
         ELSE WalkBack(Low28(reversedFAT[startCluster]), chainEntries + 1,
                       clusterCount, reversedFAT, fuel - 1)
    ELSE [ends |-> TRUE, startCluster |-> startCluster,
          chainEntries |-> chainEntries]

\* The second loop of followChainBackwards: the scan forward from the start,
\* on the table values as stored (no mask), which yields chain.Contiguous.
RECURSIVE ScanForward(_, _, _)
ScanForward(fat, currentCluster, clusterCount) ==
    IF U32Less(fat[currentCluster], clusterCount)
    THEN IF ~U32Is(fat[currentCluster], currentCluster + 1)
         THEN FALSE
         ELSE ScanForward(fat, Low28(fat[currentCluster]), clusterCount)
    ELSE TRUE

\* Whether that forward scan ends within fuel steps.  The scan only follows
\* a link to the next higher cluster, so clusterCount steps are enough for
\* any scan that ends.
RECURSIVE ScanForwardEnds(_, _, _, _)
ScanForwardEnds(fat, currentCluster, clusterCount, fuel) ==
    IF U32Less(fat[currentCluster], clusterCount)
    THEN IF ~U32Is(fat[currentCluster], currentCluster + 1)
         THEN TRUE
         ELSE IF fuel = 0
         THEN FALSE
         ELSE ScanForwardEnds(fat, Low28(fat[currentCluster]), clusterCount,
                              fuel - 1)
    ELSE TRUE

\* followChainBackwards with the contiguity decided by the first link alone
\* (the forward scan does not advance).
followChainBackwards_firstLinkOnly(h, fat, endCluster, clusterCount, reversedFAT) ==
    IF U32Less(fat[endCluster], clusterCount)
    THEN [err |-> "internal", chain |-> ZeroChain]
    ELSE LET back == WalkBack(endCluster, 1, clusterCount, reversedFAT,
                              FATEntryCount(h))
         IN  [err |-> "nil",
              chain |-> [StartCluster |-> back.startCluster,
                         Contiguous |->
                             (U32Less(fat[back.startCluster], clusterCount)
                                 => U32Is(fat[back.startCluster],
                                          back.startCluster + 1)),
                         SizeHigh |-> 0,
                         Size |-> back.chainEntries * SectorSize
                                      * h.BPB.SectorsPerCluster]]

\* followChainBackwards with chainEntries starting at 0: the end cluster is
\* not counted.
followChainBackwards_endNotCounted(h, fat, endCluster, clusterCount, reversedFAT) ==
    IF U32Less(fat[endCluster], clusterCount)
    THEN [err |-> "internal", chain |-> ZeroChain]
    ELSE LET back == WalkBack(endCluster, 0, clusterCount, reversedFAT,
                              FATEntryCount(h))
         IN  [err |-> "nil",
              chain |-> [StartCluster |-> back.startCluster,
                         Contiguous |-> ScanForward(fat, back.startCluster,
                                                    clusterCount),
                         SizeHigh |-> 0,
                         Size |-> back.chainEntries * SectorSize
                                      * h.BPB.SectorsPerCluster]]

\* followChainBackwards with the Size computed without SectorsPerCluster.
followChainBackwards_sizeInSectors(h, fat, endCluster, clusterCount, reversedFAT) ==
    IF U32Less(fat[endCluster], clusterCount)
    THEN [err |-> "internal", chain |-> ZeroChain]
    ELSE LET back == WalkBack(endCluster, 1, clusterCount, reversedFAT,
                              FATEntryCount(h))
         IN  [err |-> "nil",
              chain |-> [StartCluster |-> back.startCluster,
                         Contiguous |-> ScanForward(fat, back.startCluster,
                                                    clusterCount),
                         SizeHigh |-> 0,
                         Size |-> back.chainEntries * SectorSize]]

\* followChainBackwards(endCluster, clusterCount, reversedFAT, chain): the
\* error it returns and the chain it fills in.
followChainBackwards(h, fat, endCluster, clusterCount, reversedFAT) ==
    IF U32Less(fat[endCluster], clusterCount)
    THEN [err |-> "internal", chain |-> ZeroChain]
    ELSE LET back == WalkBack(endCluster, 1, clusterCount, reversedFAT,
                              clusterCount)
         IN  IF ~back.ends
             THEN [err |-> "hang", chain |-> ZeroChain]
             ELSE IF ~ScanForwardEnds(fat, back.startCluster, clusterCount,
                                      clusterCount)
             THEN [err |-> "hang", chain |-> ZeroChain]
             ELSE [err |-> "nil",
                   chain |-> [StartCluster |-> back.startCluster,
                              Contiguous |-> ScanForward(fat, back.startCluster,
                                                         clusterCount),
                              SizeHigh |-> 0,
                              Size |-> back.chainEntries * SectorSize
                                           * h.BPB.SectorsPerCluster]]

\* One iteration of the first loop of GetAllChains, for cluster i: st holds
\* the reversed table and the count of chain ends so far.  f.FAT[i] and
\* reversedFAT[v] panic (index out of range) for an index at or beyond
\* len(f.FAT).
BuildReversedStep(fat, i, clusterCount, st) ==
    IF i \notin DOMAIN fat
    THEN [st EXCEPT !.panic = TRUE]
    ELSE LET v == Low28(fat[i])
         IN  IF v >= clusterCount
             THEN [st EXCEPT !.chainCount = @ + 1]
             ELSE IF v = 0
             THEN st
             ELSE IF v \notin DOMAIN st.reversedFAT
             THEN [st EXCEPT !.panic = TRUE]
             ELSE [st EXCEPT !.reversedFAT[v] = U32(i)]

\* The iterations lo .. hi-1 of that loop, in increasing order, stopping at
\* a panic.  The range is halved so that the evaluation stays shallow on a
\* table of 128 entries.
RECURSIVE BuildReversedRange(_, _, _, _, _)
BuildReversedRange(fat, lo, hi, clusterCount, st) ==
    IF st.panic \/ lo >= hi
    THEN st
    ELSE IF hi = lo + 1
    THEN BuildReversedStep(fat, lo, clusterCount, st)
    ELSE LET mid == (lo + hi) \div 2
         IN  BuildReversedRange(fat, mid, hi, clusterCount,
                 BuildReversedRange(fat, lo, mid, clusterCount, st))

\* The first loop of GetAllChains over i .. clusterCount-1: it fills the
\* reversed table and counts the chain ends.  When it ends without a panic,
\* clusterCount <= len(f.FAT) or clusterCount <= 2, and no later index of
\* GetAllChains or followChainBackwards is out of range.
BuildReversed(fat, i, clusterCount, reversedFAT, chainCount) ==
    BuildReversedRange(fat, i, clusterCount, clusterCount,
                       [panic |-> FALSE, reversedFAT |-> reversedFAT,
                        chainCount |-> chainCount])

\* The second loop of GetAllChains: every i whose masked entry is
\* >= clusterCount is followed back into toReturn[chainCount].
RECURSIVE CollectChains(_, _, _, _, _, _, _)
CollectChains(h, fat, i, clusterCount, reversedFAT, toReturn, chainCount) ==
    IF i >= clusterCount
    THEN [err |-> "nil", list |-> toReturn]
    ELSE LET v == Low28(fat[i])
         IN  IF v < clusterCount
             THEN CollectChains(h, fat, i + 1, clusterCount, reversedFAT,
                                toReturn, chainCount)
             ELSE LET r == followChainBackwards(h, fat, i, clusterCount,
                                                reversedFAT)
                  IN  IF r.err # "nil"
                      THEN [err |-> r.err, list |-> <<>>]
                      ELSE CollectChains(h, fat, i + 1, clusterCount,
                               reversedFAT,
                               [toReturn EXCEPT ![chainCount + 1] = r.chain],
                               chainCount + 1)

\* GetAllChains with both loops starting at index 0 instead of 2.
GetAllChains_fromZero(h, fat) ==
    LET clusterCount == ClusterCount(h)
        first == BuildReversed(fat, 0, clusterCount,
                               [j \in DOMAIN fat |-> NoPredecessor], 0)
        toReturn == [k \in 1..first.chainCount |-> ZeroChain]
    IN  CollectChains(h, fat, 0, clusterCount, first.reversedFAT, toReturn, 0)

\* GetAllChains whose second loop starts one index late.
GetAllChains_secondLoopLate(h, fat) ==
    LET clusterCount == ClusterCount(h)
        first == BuildReversed(fat, 2, clusterCount,
                               [j \in DOMAIN fat |-> NoPredecessor], 0)
        toReturn == [k \in 1..first.chainCount |-> ZeroChain]
    IN  CollectChains(h, fat, 3, clusterCount, first.reversedFAT, toReturn, 0)

\* GetAllChains taking a free entry (0) for a chain end as well.
GetAllChains_zeroIsEnd(h, fat) ==
    LET clusterCount == ClusterCount(h)
        seen == [j \in DOMAIN fat |->
                    IF j >= 2 /\ j < clusterCount /\ Low28(fat[j]) = 0
                    THEN U32(TwoTo28 - 1) ELSE fat[j]]
        first == BuildReversed(seen, 2, clusterCount,
                               [j \in DOMAIN fat |-> NoPredecessor], 0)
        toReturn == [k \in 1..first.chainCount |-> ZeroChain]
    IN  CollectChains(h, seen, 2, clusterCount, first.reversedFAT, toReturn, 0)

\* GetAllChains: the error and the list of chains it returns, or the panic
\* it ends in: the division LargeSectorCount / SectorsPerCluster by zero, or
\* an index out of range in the first loop.
GetAllChains(h, fat) ==
    IF h.BPB.SectorsPerCluster = 0
    THEN [err |-> "integer divide by zero", list |-> <<>>]
    ELSE
    LET clusterCount == ClusterCount(h)
        first == BuildReversed(fat, 2, clusterCount,
                               [j \in DOMAIN fat |-> NoPredecessor], 0)
        toReturn == [k \in 1..first.chainCount |-> ZeroChain]
    IN  IF first.panic
        THEN [err |-> "index out of range", list |-> <<>>]
        ELSE CollectChains(h, fat, 2, clusterCount, first.reversedFAT,
                           toReturn, 0)

\* ------------------------------------------------------- image offsets

\* The int64 byte offset sector * SectorSize + byte.
Offset(sector, byte) == [sector |-> sector, byte |-> byte]

\* o + n for an offset o and a byte count n >= 0.
OffsetAdd(o, n) ==
    Offset(o.sector + ((o.byte + n) \div SectorSize),
           (o.byte + n) % SectorSize)

\* a <= b on offsets.
OffsetLeq(a, b) ==
    a.sector < b.sector \/ (a.sector = b.sector /\ a.byte <= b.byte)

\* b - a in bytes.
OffsetDiff(a, b) ==
    ((b.sector - a.sector) * SectorSize) + (b.byte - a.byte)

\* GetDataOffset(c, offset): the offset of (offset mod cluster size) into
\* cluster c.  It has no error result.
\*   firstDataSector * SectorSize + (c - 2) * clusterSize + offsetInCluster
GetDataOffset(h, c, offset) ==
    LET firstDataSector == h.BPB.ReservedSectorCount
                               + (h.BPB.FATCount * h.EBR.SectorsPerFAT)
        clusterSize == GetClusterSize(h)
        offsetInCluster == offset % clusterSize
    IN  Offset(firstDataSector + ((c - 2) * h.BPB.SectorsPerCluster)
                   + (offsetInCluster \div SectorSize),
               offsetInCluster % SectorSize)

\* --------------------------------------------------------------- the source

\* Content.Seek(offset, io.SeekStart) on a source at position pos: the new
\* position.
SourceSeek(pos, offset) == offset

\* Content.Read of n bytes on a source at position pos: the bytes it yields,
\* as a run <<offset in the image, count>>, and the new position.  The image
\* is read at every offset asked for: the source returns no error and no
\* end of file.
SourceRead(pos, n) == [run |-> <<pos, n>>, pos |-> OffsetAdd(pos, n)]

\* ------------------------------------------------------ the window reader

\* The source that is no window: the image itself.
ImageSource == [kind |-> "image"]

\* The offset o in bytes.
OffsetBytes(o) == (o.sector * SectorSize) + o.byte

\* LimitReadSeeker refusing the inverted windows only: limit = base gives a
\* window of size 0.
LimitReadSeeker_emptyAllowed(source, base, limit) ==
    IF OffsetLeq(limit, base) /\ limit # base
    THEN [err |-> "bounds", reader |-> NoReader]
    ELSE IF source.kind = "window"
    THEN IF OffsetBytes(base) + OffsetDiff(base, limit) > source.size
         THEN [err |-> "exceeds parent bound", reader |-> NoReader]
         ELSE [err |-> "nil",
               reader |-> [kind |-> "window", source |-> source.source,
                           base |-> OffsetAdd(source.base, OffsetBytes(base)),
                           size |-> OffsetDiff(base, limit), cur |-> 0]]
    ELSE [err |-> "nil",
          reader |-> [kind |-> "window", source |-> source, base |-> base,
                      size |-> OffsetDiff(base, limit), cur |-> 0]]

\* LimitReadSeeker without the check against the parent window's size.
LimitReadSeeker_noParentCheck(source, base, limit) ==
    IF OffsetLeq(limit, base)
    THEN [err |-> "bounds", reader |-> NoReader]
    ELSE IF source.kind = "window"
    THEN [err |-> "nil",
          reader |-> [kind |-> "window", source |-> source.source,
                      base |-> OffsetAdd(source.base, OffsetBytes(base)),
                      size |-> OffsetDiff(base, limit), cur |-> 0]]
    ELSE [err |-> "nil",
          reader |-> [kind |-> "window", source |-> source, base |-> base,
                      size |-> OffsetDiff(base, limit), cur |-> 0]]

\* LimitReadSeeker wrapping the parent window: the new window refers to the
\* parent and keeps the base it was given.
LimitReadSeeker_wrapsParent(source, base, limit) ==
    IF OffsetLeq(limit, base)
    THEN [err |-> "bounds", reader |-> NoReader]
    ELSE IF source.kind = "window"
            /\ OffsetBytes(base) + OffsetDiff(base, limit) > source.size
    THEN [err |-> "exceeds parent bound", reader |-> NoReader]
    ELSE [err |-> "nil",
          reader |-> [kind |-> "window", source |-> source, base |-> base,
                      size |-> OffsetDiff(base, limit), cur |-> 0]]

\* LimitReadSeeker(source, base, limit): it fails when limit <= base, and
\* otherwise gives a reader of the bytes base .. limit-1 of source that
\* starts at its offset 0.  On a source that is itself a window, it fails
\* when base + (limit - base) exceeds that window's size, and otherwise the
\* new window refers to that window's own source, its base being the sum of
\* the two bases.
LimitReadSeeker(source, base, limit) ==
    IF OffsetLeq(limit, base)
    THEN [err |-> "bounds", reader |-> NoReader]
    ELSE IF source.kind = "window"
    THEN IF OffsetBytes(base) + OffsetDiff(base, limit) > source.size
         THEN [err |-> "exceeds parent bound", reader |-> NoReader]
         ELSE [err |-> "nil",
               reader |-> [kind |-> "window", source |-> source.source,
                           base |-> OffsetAdd(source.base, OffsetBytes(base)),
                           size |-> OffsetDiff(base, limit), cur |-> 0]]
    ELSE [err |-> "nil",
          reader |-> [kind |-> "window", source |-> source, base |-> base,
                      size |-> OffsetDiff(base, limit), cur |-> 0]]

\* Seek refusing a candidate at or past the size as out of bounds.
WindowSeek_pastEndIsError(w, offset, whence) ==
    LET candidate == IF whence = "SeekStart" THEN offset
                     ELSE IF whence = "SeekCurrent" THEN w.cur + offset
                     ELSE w.size + offset
    IN  IF candidate >= w.size
        THEN [pos |-> 0, err |-> "bounds", reader |-> w]
        ELSE [pos |-> candidate, err |-> "nil",
              reader |-> [w EXCEPT !.cur = candidate]]

\* Seek(offset, whence) on the window reader w: the candidate offset is
\* relative to the window's start, current offset or end; a candidate at or
\* past the window's size gives position size and the end-of-stream signal,
\* any other candidate becomes the current offset.
WindowSeek(w, offset, whence) ==
    LET candidate == IF whence = "SeekStart" THEN offset
                     ELSE IF whence = "SeekCurrent" THEN w.cur + offset
                     ELSE w.size + offset
    IN  IF candidate >= w.size
        THEN [pos |-> w.size, err |-> "EOF", reader |-> [w EXCEPT !.cur = w.size]]
        ELSE [pos |-> candidate, err |-> "nil",
              reader |-> [w EXCEPT !.cur = candidate]]

\* A Read of the window reader that does not cut the request at the
\* window's end.
WindowRead_noTruncation(w, bufLen, pos) ==
    LET remaining == w.size - w.cur
        got == SourceRead(SourceSeek(pos, OffsetAdd(w.base, w.cur)), bufLen)
    IN  [n |-> bufLen,
         err |-> IF bufLen > remaining THEN "EOF" ELSE "nil",
         runs |-> IF bufLen = 0 THEN <<>> ELSE <<got.run>>,
         reader |-> [w EXCEPT !.cur = w.cur + bufLen],
         pos |-> got.pos]

\* A Read of the window reader w into a buffer of length bufLen, the source
\* being at position pos: the source is sought to base + cur and the bytes
\* left in the window, at most bufLen of them, are read there; the
\* end-of-stream signal when the request goes past the window's end.
\* The bytes are given as runs <<offset in the image, count>>.
WindowRead(w, bufLen, pos) ==
    LET remaining == w.size - w.cur
        n == IF bufLen > remaining THEN remaining ELSE bufLen
        got == SourceRead(SourceSeek(pos, OffsetAdd(w.base, w.cur)), n)
    IN  [n |-> n,
         err |-> IF bufLen > remaining THEN "EOF" ELSE "nil",
         runs |-> IF n = 0 THEN <<>> ELSE <<got.run>>,
         reader |-> [w EXCEPT !.cur = w.cur + n],
         pos |-> got.pos]

\* ------------------------------------------------- the cluster-walking reader

\* uint32(x) for a uint64 x.
Uint32(x) == (((x \div TwoTo28) % 16) * TwoTo28) + (x % TwoTo28)

\* uint32(x) of a uint64 x = high * 2^32 + low, given as its two 32-bit
\* words: the upper word is dropped.
Uint32Of64(high, low) == Uint32(low)

\* 2^32 bytes, in sectors of 512 bytes.
TwoTo32InSectors == 8388608

\* The chainReader GetChainReader builds for chain c:
\*   &chainReader{f, readOffset: 0, currentCluster: c.StartCluster,
\*                size: uint32(c.Size)}
NewChainReader(c) ==
    [kind |-> "chain", readOffset |-> 0, currentCluster |-> c.StartCluster,
     size |-> Uint32Of64(c.SizeHigh, c.Size)]

\* GetChainReader(c): the window over the chain's bytes when c.Contiguous,
\* and a chainReader at the chain's start otherwise.
GetChainReader(h, c) ==
    IF c.Contiguous
    THEN LET dataStart == GetDataOffset(h, c.StartCluster, 0)
             limit == [OffsetAdd(dataStart, c.Size) EXCEPT
                          !.sector = @ + (c.SizeHigh * TwoTo32InSectors)]
         IN  LimitReadSeeker(ImageSource, dataStart, limit)
    ELSE [err |-> "nil", reader |-> NewChainReader(c)]

\* chainReader.Read's access to one cluster, the source being at position
\* pos: the source is read without being sought to dataOffset first.
ReadCluster_noSeek(pos, dataOffset, n) == SourceRead(pos, n)

\* chainReader.Read's access to one cluster, the source being at position
\* pos:  f.f.Content.Seek(dataOffset, io.SeekStart), then
\* f.f.Content.Read(dst[currentAmountRead:dstLimit]) of n bytes.
ReadCluster(pos, dataOffset, n) == SourceRead(SourceSeek(pos, dataOffset), n)

\* The loop of chainReader.Read, one iteration per cluster read.  r is the
\* chainReader, bufCap the capacity of dst, runs what was copied into dst so
\* far, pos the position of the source.
RECURSIVE ReadLoop(_, _, _, _, _, _, _, _, _)
ReadLoop(h, fat, bufCap, bytesToRead, reachedEOF, r, currentAmountRead, runs, pos) ==
    IF ~(currentAmountRead < bytesToRead)
    THEN [n |-> currentAmountRead,
          err |-> IF reachedEOF THEN "EOF" ELSE "nil",
          runs |-> runs, reader |-> r, pos |-> pos]
    ELSE
    LET clusterSize == GetClusterSize(h)
        offsetInCluster == r.readOffset % clusterSize
        remainingInCluster == clusterSize - offsetInCluster
        toReadThisCluster == IF bytesToRead > remainingInCluster
                             THEN remainingInCluster ELSE bytesToRead
        dataOffset == GetDataOffset(h, r.currentCluster, offsetInCluster)
        dstLimit == currentAmountRead + toReadThisCluster
        read == [r EXCEPT !.readOffset = Uint32(r.readOffset + toReadThisCluster)]
        got == ReadCluster(pos, dataOffset, toReadThisCluster)
        copied == Append(runs, got.run)
    IN  IF dstLimit > bufCap
        THEN \* dst[currentAmountRead:dstLimit]: slice bounds out of range
             [n |-> 0, err |-> "panic", runs |-> runs, reader |-> r,
              pos |-> SourceSeek(pos, dataOffset)]
        ELSE IF dstLimit >= bytesToRead
        THEN [n |-> dstLimit,
              err |-> IF reachedEOF THEN "EOF" ELSE "nil",
              runs |-> copied, reader |-> read, pos |-> got.pos]
        ELSE IF r.currentCluster \notin DOMAIN fat
        THEN \* f.f.FAT[f.currentCluster]: index out of range
             [n |-> 0, err |-> "panic", runs |-> copied, reader |-> read,
              pos |-> got.pos]
        ELSE LET nextCluster == fat[r.currentCluster]
             IN  IF U32Is(nextCluster, 0)
                      \/ ~U32Less(nextCluster, BadClusterMark)
                 THEN [n |-> 0, err |-> "internal", runs |-> copied,
                       reader |-> read, pos |-> got.pos]
                 ELSE ReadLoop(h, fat, bufCap, bytesToRead, reachedEOF,
                               [read EXCEPT !.currentCluster = Low28(nextCluster)],
                               dstLimit, copied, got.pos)

\* chainReader.Read(dst) for len(dst) = bufLen and cap(dst) = bufCap, the
\* source being at position pos: the count and the error it returns (or the
\* panic it ends in), what it copied into dst, the chainReader and the
\* position of the source afterwards.
ChainRead(h, fat, r, bufLen, bufCap, pos) ==
    LET bytesRemaining == r.size - r.readOffset
        reachedEOF == bytesRemaining < bufLen
        bytesToRead == IF reachedEOF THEN bytesRemaining ELSE bufLen
    IN  ReadLoop(h, fat, bufCap, bytesToRead, reachedEOF, r, 0, <<>>, pos)

\* ------------------------------------------------------------ initial state

\* The values an entry of a data cluster takes in Init: free, the value 1,
\* every link to a data cluster, the usual end mark 0x0fffffff, the smallest
\* out-of-range value, and every link with one of the top 4 bits set.
EntryValues(cc) ==
    {U32(0), U32(1), U32(TwoTo28 - 1), U32(cc)}
      \cup {U32(j) : j \in 2..(cc - 1)}
      \cup {[hi |-> 1, lo |-> j] : j \in 2..(cc - 1)}

\* Entries 0 and 1 of a table: the media descriptor and end marks a formatted
\* volume holds there, or other values.
ReservedValues ==
    { <<U32(TwoTo28 - 8), [hi |-> 15, lo |-> TwoTo28 - 1]>>,
      <<U32(TwoTo28 - 8), U32(2)>>,
      <<U32(2), U32(3)>> }

Headers ==
    { [BPB |-> [SectorsPerCluster |-> spc,
                ReservedSectorCount |-> 2,
                FATCount |-> 2,
                LargeSectorCount |-> MaxClusters * spc + (spc - 1)],
       EBR |-> [SectorsPerFAT |-> 1]] : spc \in {1, 2} }

\* The tables loadFAT can produce for header h: FATEntryCount(h) entries; the
\* entries at and above clusterCount are unused and zero.  clusterCount is
\* below FATEntryCount(h) and SectorsPerCluster is not 0 for every header of
\* Headers, so no index of GetAllChains leaves the table and its division is
\* defined.
Tables(h) ==
    LET cc == ClusterCount(h)
        n == FATEntryCount(h)
    IN  { [i \in 0..(n - 1) |->
             IF i = 0 THEN rv[1]
             ELSE IF i = 1 THEN rv[2]
             ELSE IF i < cc THEN data[i]
             ELSE U32(0)] :
          rv \in ReservedValues, data \in [2..(cc - 1) -> EntryValues(cc)] }

Init ==
    /\ Header \in Headers
    /\ FAT \in Tables(Header)
    /\ chains = NoCall
    /\ cut = NoCut
    /\ opened = NoOpen
    /\ reader = NoReader
    /\ walker = NoReader
    /\ last = NoRead
    /\ reads = 0
    /\ offs = NoOffset
    /\ image = NoImage
    /\ volume = NoVolume
    /\ cursor = AfterLoad(Header)
    /\ sharers = <<>>

\* ---------------------------------------------- the claims' vocabulary

\* The chain ends of the loaded table: the indices i in [2, clusterCount)
\* whose entry's low 28 bits are >= clusterCount.
ChainEnds ==
    { i \in 2..(ClusterCount(Header) - 1) :
          Low28(FAT[i]) >= ClusterCount(Header) }

\* The k-th chain end in ascending order.
KthEnd(k) ==
    CHOOSE i \in ChainEnds : Cardinality({ j \in ChainEnds : j < i }) = k - 1

\* The clusters met from c by following the links (low 28 bits) of table
\* fat up to and including a chain end; <<>> when no chain end is met.
RECURSIVE LinkedRunIn(_, _, _)
LinkedRunIn(fat, c, fuel) ==
    IF fuel = 0 \/ c < 2 \/ c >= ClusterCount(Header)
    THEN <<>>
    ELSE IF Low28(fat[c]) >= ClusterCount(Header)
    THEN <<c>>
    ELSE LET rest == LinkedRunIn(fat, Low28(fat[c]), fuel - 1)
         IN  IF rest = <<>> THEN <<>> ELSE <<c>> \o rest

LinkedRun(c) == LinkedRunIn(FAT, c, ClusterCount(Header))

\* Every entry of a data cluster is 0, a link to a data cluster, or an
\* out-of-range end.
WellFormedTable ==
    \A i \in 2..(ClusterCount(Header) - 1) :
        \/ FAT[i] = U32(0)
        \/ FAT[i].hi = 0 /\ FAT[i].lo \in 2..(ClusterCount(Header) - 1)
        \/ Low28(FAT[i]) >= ClusterCount(Header)

Returned == chains.called /\ chains.err = "nil"

ChainIndexes == IF Returned THEN 1..Len(chains.list) ELSE {}

\* ------------------------------------------------------------------ actions

\* A call of GetAllChains on the loaded volume.
GetAllChainsCall ==
    /\ ~chains.called
    /\ chains' = [called |-> TRUE] @@ GetAllChains(Header, FAT)
    /\ UNCHANGED <<Header, FAT, cut, opened, reader, walker, last, reads, offs>>
    /\ UNCHANGED <<openVars, sharedVars>>

\* The corruption scenario: the entry of a middle cluster of a run that
\* GetAllChains reported as one chain is replaced by 0 in the table, and the
\* chains are to be reconstructed again.  cut remembers the clusters of the
\* run before the zeroed one, the zeroed one, and those after it.
ZeroMiddleEntry ==
    /\ chains.called
    /\ chains.err = "nil"
    /\ ~cut.made
    /\ \E k \in 1..Len(chains.list) :
         LET run == LinkedRunIn(FAT, chains.list[k].StartCluster,
                                ClusterCount(Header))
         IN  /\ Len(run) >= 3
             /\ \E j \in 2..(Len(run) - 1) :
                  /\ FAT' = [FAT EXCEPT ![run[j]] = U32(0)]
                  /\ cut' = [made |-> TRUE,
                             before |-> SubSeq(run, 1, j - 1),
                             zeroed |-> run[j],
                             after |-> SubSeq(run, j + 1, Len(run))]
    /\ chains' = NoCall
    /\ UNCHANGED <<Header, opened, reader, walker, last, reads, offs>>
    /\ UNCHANGED <<openVars, sharedVars>>

Next ==
    \/ GetAllChainsCall
    \/ ZeroMiddleEntry

Spec == Init /\ [][Next]_vars


\* ------------------------------------------------- reading the chains

\* The tables of the reading scenarios: every data entry is free, a link,
\* a link with one of the top 4 bits set, or the end mark 0x0fffffff.
ReadTables(h) ==
    { t \in Tables(h) :
        /\ t[0] = U32(TwoTo28 - 8)
        /\ t[1] = [hi |-> 15, lo |-> TwoTo28 - 1]
        /\ \A i \in 2..(ClusterCount(h) - 1) :
              t[i] # U32(1) /\ t[i] # U32(ClusterCount(h)) }

InitRead ==
    /\ Header \in Headers
    /\ FAT \in ReadTables(Header)
    /\ chains = NoCall
    /\ cut = NoCut
    /\ opened = NoOpen
    /\ reader = NoReader
    /\ walker = NoReader
    /\ last = NoRead
    /\ reads = 0
    /\ offs = NoOffset
    /\ image = NoImage
    /\ volume = NoVolume
    /\ cursor = AfterLoad(Header)
    /\ sharers = <<>>

\* The lengths of the buffers handed to Read, and the capacity a buffer of
\* length n may have: its length, or room behind it.
BufferLengths == {200, 512, 700, 4096}
BufferCapacities(n) == {n, n + 4096}

\* GetChainReader on one of the chains GetAllChains returned.  For a
\* contiguous chain, walker is the chainReader the slow path would have
\* built for the same chain, to be read side by side with the window.
OpenChainReader ==
    /\ chains.called
    /\ chains.err = "nil"
    /\ ~opened.made
    /\ \E k \in 1..Len(chains.list) :
         LET c == chains.list[k]
             r == GetChainReader(Header, c)
         IN  /\ opened' = [made |-> TRUE, chain |-> c, err |-> r.err]
             /\ reader' = r.reader
             /\ walker' = IF c.Contiguous /\ r.err = "nil"
                          THEN NewChainReader(c) ELSE NoReader
    /\ UNCHANGED <<Header, FAT, chains, cut, last, reads, offs>>
    /\ UNCHANGED <<openVars, sharedVars>>

\* What a Read call returned, without the reader's state.
Returns(out) == [n |-> out.n, err |-> out.err, runs |-> out.runs]

NoReturn == [n |-> 0, err |-> "none", runs |-> <<>>]

\* One Read call on the open reader, and the same call on walker (when there
\* is one).  A panic ends the program: no Read follows it.
ReadCall ==
    /\ reader.kind # "none"
    /\ reads < MaxReads
    /\ last.made => (last.out.err # "panic" /\ last.outW.err # "panic")
    /\ \E bufLen \in BufferLengths :
         \E bufCap \in BufferCapacities(bufLen) :
           LET out == IF reader.kind = "window"
                      THEN WindowRead(reader, bufLen, cursor)
                      ELSE ChainRead(Header, FAT, reader, bufLen, bufCap,
                                     cursor)
               outW == IF walker.kind = "chain"
                       THEN ChainRead(Header, FAT, walker, bufLen, bufCap,
                                      cursor)
                       ELSE NoReturn @@ [reader |-> walker]
           IN  /\ last' = [made |-> TRUE, bufLen |-> bufLen, bufCap |-> bufCap,
                           before |-> reader, out |-> Returns(out),
                           outW |-> Returns(outW)]
               /\ reader' = out.reader
               /\ walker' = outW.reader
               /\ cursor' = out.pos
    /\ reads' = reads + 1
    /\ UNCHANGED <<Header, FAT, chains, cut, opened, offs>>
    /\ UNCHANGED <<openVars, sharers>>

NextRead ==
    \/ GetAllChainsCall
    \/ OpenChainReader
    \/ ReadCall

SpecRead == InitRead /\ [][NextRead]_vars

\* ------------------------------------------- mapping clusters to offsets

\* A formatted table with no chain in it.
EmptyTable(h) ==
    [i \in 0..(FATEntryCount(h) - 1) |->
        IF i = 0 THEN U32(TwoTo28 - 8)
        ELSE IF i = 1 THEN [hi |-> 15, lo |-> TwoTo28 - 1]
        ELSE U32(0)]

InitOffset ==
    /\ Header \in Headers
    /\ FAT = EmptyTable(Header)
    /\ chains = NoCall
    /\ cut = NoCut
    /\ opened = NoOpen
    /\ reader = NoReader
    /\ walker = NoReader
    /\ last = NoRead
    /\ reads = 0
    /\ offs = NoOffset
    /\ image = NoImage
    /\ volume = NoVolume
    /\ cursor = AfterLoad(Header)
    /\ sharers = <<>>

\* The cluster numbers and the offsets handed to GetDataOffset.
ClusterArguments ==
    {0, 1, 2, 3, MaxClusters - 1, BadClusterMark - 1, BadClusterMark,
     BadClusterMark + 1, TwoTo28 - 1}
OffsetArguments == {0, 1, 511, 512, 513, 1023, 1024}

\* The cluster numbers that are no data cluster: 0, 1, and 0x0ffffff7 up.
InvalidCluster(c) == c \in {0, 1} \/ c >= BadClusterMark

\* A call GetDataOffset(c, offset).  GetDataOffset returns an int64 and no
\* error: every call yields an offset, none is rejected.
GetDataOffsetCall ==
    /\ \E c \in ClusterArguments :
         \E offset \in OffsetArguments :
           offs' = [made |-> TRUE, c |-> c, offset |-> offset,
                    rejected |-> FALSE,
                    result |-> GetDataOffset(Header, c, offset)]
    /\ UNCHANGED <<Header, FAT, chains, cut, opened, reader, walker, last, reads>>
    /\ UNCHANGED <<openVars, sharedVars>>

\* GetChainReader on a FATChain the caller made, of one cluster.
OpenCallerChain ==
    /\ \E start \in ClusterArguments :
         \E contiguous \in BOOLEAN :
           LET c == [StartCluster |-> start, Contiguous |-> contiguous,
                     SizeHigh |-> 0,
                     Size |-> GetClusterSize(Header)]
               r == GetChainReader(Header, c)
           IN  /\ opened' = [made |-> TRUE, chain |-> c, err |-> r.err]
               /\ reader' = r.reader
    /\ UNCHANGED <<Header, FAT, chains, cut, walker, last, reads, offs>>
    /\ UNCHANGED <<openVars, sharedVars>>

NextOffset ==
    \/ GetDataOffsetCall
    \/ OpenCallerChain

SpecOffset == InitOffset /\ [][NextOffset]_vars

\* ------------------------------------------------------ windows on a source

\* The base and limit arguments of LimitReadSeeker, in bytes, and the nesting
\* of windows: a window on the image and MaxNesting windows on top of it.
WindowBases == {1, 3, 25}
WindowLimits == {3, 20, 27, 30}

\* The arguments of Seek and the lengths of the buffers handed to Read.
Whences == {"SeekStart", "SeekCurrent", "SeekEnd"}
SeekOffsets == {-1, 2, 27}
WindowBuffers == {3, 10}

\* No window is open on the image.
InitWindow ==
    /\ Header \in { h \in Headers : h.BPB.SectorsPerCluster = 1 }
    /\ FAT = EmptyTable(Header)
    /\ chains = NoCall
    /\ cut = NoCut
    /\ opened = NoOpen
    /\ reader = NoReader
    /\ walker = NoReader
    /\ last = NoRead
    /\ reads = 0
    /\ offs = NoOffset
    /\ image = NoImage
    /\ volume = NoVolume
    /\ cursor = AfterLoad(Header)
    /\ sharers = <<>>

\* A call LimitReadSeeker(source, base, limit), source being the image when
\* no window is open and the open window otherwise.  When it succeeds, its
\* reader becomes the open window, and walker is the window opened on the
\* image itself over the same bytes, to be used side by side with it.
\* The windows are opened before the first Seek or Read.
OpenWindow ==
    /\ opened.made => opened.depth <= MaxNesting
    /\ reads = 0
    /\ \E b \in WindowBases :
         \E l \in WindowLimits :
           LET source == IF reader.kind = "window" THEN reader ELSE ImageSource
               start == IF reader.kind = "window" THEN reader.base
                        ELSE Offset(0, 0)
               r == LimitReadSeeker(source, Offset(0, b), Offset(0, l))
               depth == IF opened.made THEN opened.depth ELSE 0
           IN  /\ opened' = [made |-> TRUE, source |-> source, base |-> b,
                             limit |-> l, err |-> r.err, reader |-> r.reader,
                             depth |-> IF r.err = "nil" THEN depth + 1
                                       ELSE depth]
               /\ reader' = IF r.err = "nil" THEN r.reader ELSE reader
               /\ walker' = IF r.err = "nil"
                            THEN LimitReadSeeker(ImageSource,
                                                 OffsetAdd(start, b),
                                                 OffsetAdd(start, l)).reader
                            ELSE walker
    /\ last' = NoRead
    /\ UNCHANGED <<Header, FAT, chains, cut, reads, offs>>
    /\ UNCHANGED <<openVars, sharedVars>>

\* The last call was a Seek whose candidate offset was at or past the size.
SeekWasPastEnd ==
    /\ last.made
    /\ last.op = "seek"
    /\ last.candidate >= last.before.size

\* A Seek on the open window, and the same Seek on walker.  The source is
\* sought at the next Read, not by the Seek.
WindowSeekCall ==
    /\ reader.kind = "window"
    /\ reads < MaxReads
    /\ \E whence \in Whences :
         \E offset \in SeekOffsets :
             LET out == WindowSeek(reader, offset, whence)
                 outW == WindowSeek(walker, offset, whence)
             IN  /\ last' = [made |-> TRUE, op |-> "seek", whence |-> whence,
                             offset |-> offset,
                             candidate |->
                                 IF whence = "SeekStart" THEN offset
                                 ELSE IF whence = "SeekCurrent"
                                 THEN reader.cur + offset
                                 ELSE reader.size + offset,
                             before |-> reader,
                             out |-> [pos |-> out.pos, err |-> out.err],
                             outW |-> [pos |-> outW.pos, err |-> outW.err],
                             afterSeekPastEnd |-> SeekWasPastEnd]
                 /\ reader' = out.reader
                 /\ walker' = outW.reader
    /\ reads' = reads + 1
    /\ UNCHANGED <<Header, FAT, chains, cut, opened, offs>>
    /\ UNCHANGED <<openVars, sharedVars>>

\* A Read on the open window, and the same Read on walker.
WindowReadCall ==
    /\ reader.kind = "window"
    /\ reads < MaxReads
    /\ \E bufLen \in WindowBuffers :
         LET out == WindowRead(reader, bufLen, cursor)
             outW == WindowRead(walker, bufLen, cursor)
         IN  /\ last' = [made |-> TRUE, op |-> "read", bufLen |-> bufLen,
                         before |-> reader, out |-> Returns(out),
                         outW |-> Returns(outW),
                         afterSeekPastEnd |-> SeekWasPastEnd]
             /\ reader' = out.reader
             /\ walker' = outW.reader
             /\ cursor' = out.pos
    /\ reads' = reads + 1
    /\ UNCHANGED <<Header, FAT, chains, cut, opened, offs>>
    /\ UNCHANGED <<openVars, sharers>>

NextWindow ==
    \/ OpenWindow
    \/ WindowSeekCall
    \/ WindowReadCall

SpecWindow == InitWindow /\ [][NextWindow]_vars

\* ------------------------------------------------ readers sharing a source

\* The tables of the sharing scenarios: the entries of clusters 2, 3 and 4
\* are free, links among them or the end mark 0x0fffffff, every other
\* cluster is free.
SharedTables(h) ==
    { [i \in 0..(FATEntryCount(h) - 1) |->
          IF i \in 2..4 THEN data[i] ELSE EmptyTable(h)[i]] :
        data \in [2..4 -> {U32(0), U32(2), U32(3), U32(4), U32(TwoTo28 - 1)}] }

InitShared ==
    /\ Header \in Headers
    /\ FAT \in SharedTables(Header)
    /\ chains = NoCall
    /\ cut = NoCut
    /\ opened = NoOpen
    /\ reader = NoReader
    /\ walker = NoReader
    /\ last = NoRead
    /\ reads = 0
    /\ offs = NoOffset
    /\ image = NoImage
    /\ volume = NoVolume
    /\ cursor = AfterLoad(Header)
    /\ sharers = <<>>

\* The lengths of the buffers the sharing readers are read with.
SharedBuffers == {200, 700}

\* GetChainReader on one of the chains GetAllChains returned, the reader
\* joining those that share the volume's source.  Beside it, alone is the
\* same reader on a source nobody else uses, which is at position pos.
OpenSharer ==
    /\ chains.called
    /\ chains.err = "nil"
    /\ reads = 0
    /\ Len(sharers) < MaxSharers
    /\ \E k \in 1..Len(chains.list) :
         LET r == GetChainReader(Header, chains.list[k])
         IN  /\ r.err = "nil"
             /\ sharers' = Append(sharers, [reader |-> r.reader,
                                            alone |-> r.reader,
                                            pos |-> AfterLoad(Header)])
    /\ UNCHANGED <<Header, FAT, chains, cut, opened, reader, walker, last,
                   reads, offs, image, volume, cursor>>

\* A Read call on reader rd with the source at position pos.
ReaderRead(rd, bufLen, bufCap, pos) ==
    IF rd.kind = "window"
    THEN WindowRead(rd, bufLen, pos)
    ELSE ChainRead(Header, FAT, rd, bufLen, bufCap, pos)

\* One Read call on one of the sharing readers, and the same call on the
\* reader that has its source to itself.  A panic ends the program.
SharedReadCall ==
    /\ reads < MaxReads
    /\ last.made => last.out.err # "panic"
    /\ \E i \in 1..Len(sharers) :
         \E bufLen \in SharedBuffers :
           \E bufCap \in BufferCapacities(bufLen) :
             LET out == ReaderRead(sharers[i].reader, bufLen, bufCap, cursor)
                 outA == ReaderRead(sharers[i].alone, bufLen, bufCap,
                                    sharers[i].pos)
             IN  /\ last' = [made |-> TRUE, who |-> i, bufLen |-> bufLen,
                             bufCap |-> bufCap,
                             before |-> sharers[i].reader,
                             cursorBefore |-> cursor,
                             posBefore |-> sharers[i].pos,
                             out |-> Returns(out), outW |-> Returns(outA)]
                 /\ sharers' = [sharers EXCEPT ![i] =
                                    [reader |-> out.reader,
                                     alone |-> outA.reader,
                                     pos |-> outA.pos]]
                 /\ cursor' = out.pos
    /\ reads' = reads + 1
    /\ UNCHANGED <<Header, FAT, chains, cut, opened, reader, walker, offs,
                   image, volume>>

NextShared ==
    \/ GetAllChainsCall
    \/ OpenSharer
    \/ SharedReadCall

SpecShared == InitShared /\ [][NextShared]_vars

\* --------------------------------------- reading a chain the caller made

\* The tables of these scenarios: the entries of clusters 2 and 3 are free,
\* a link to cluster 3 or 4, a link with one of the top 4 bits set, the
\* smallest value that is no cluster of the volume, the largest value below
\* 0x0ffffff7, or the end mark 0x0fffffff; every other cluster is free.
WalkTables(h) ==
    { [i \in 0..(FATEntryCount(h) - 1) |->
          IF i \in 2..3 THEN data[i] ELSE EmptyTable(h)[i]] :
        data \in [2..3 -> {U32(0), U32(3), U32(4), [hi |-> 1, lo |-> 4],
                           U32(ClusterCount(h)), U32(BadClusterMark - 1),
                           U32(TwoTo28 - 1)}] }

InitWalk ==
    /\ Header \in Headers
    /\ FAT \in WalkTables(Header)
    /\ chains = NoCall
    /\ cut = NoCut
    /\ opened = NoOpen
    /\ reader = NoReader
    /\ walker = NoReader
    /\ last = NoRead
    /\ reads = 0
    /\ offs = NoOffset
    /\ image = NoImage
    /\ volume = NoVolume
    /\ cursor = AfterLoad(Header)
    /\ sharers = <<>>

\* The sizes a caller claims: one to three clusters, and 2^32 bytes plus
\* zero to three clusters, as <<upper word, clusters in the lower word>>.
ClaimedSizes ==
    {<<0, clusters>> : clusters \in 1..3}
        \cup {<<1, clusters>> : clusters \in 0..3}

\* GetChainReader on a FATChain the caller filled in: not contiguous, from
\* cluster 2 or 3, of a size of ClaimedSizes, whatever the table holds.
OpenClaimedChain ==
    /\ ~opened.made
    /\ \E start \in 2..3 :
         \E claimed \in ClaimedSizes :
           LET c == [StartCluster |-> start, Contiguous |-> FALSE,
                     SizeHigh |-> claimed[1],
                     Size |-> claimed[2] * GetClusterSize(Header)]
               r == GetChainReader(Header, c)
           IN  /\ opened' = [made |-> TRUE, chain |-> c, err |-> r.err]
               /\ reader' = r.reader
    /\ UNCHANGED <<Header, FAT, chains, cut, walker, last, reads, offs>>
    /\ UNCHANGED <<openVars, sharedVars>>

NextWalk ==
    \/ OpenClaimedChain
    \/ ReadCall

SpecWalk == InitWalk /\ [][NextWalk]_vars

\* --------------------------------------------------------- opening a volume

\* The three signatures FSInfo.Validate expects, as uint32 values:
\* 0x41615252, 0x61417272 and 0xaa550000.
FSInfoSignature1 == [hi |-> 4, lo |-> 23155282]
FSInfoSignature2 == [hi |-> 6, lo |-> 21066354]
FSInfoSignature3 == [hi |-> 10, lo |-> 173342720]

\* FSInfo.Validate: nil, or the error on the first signature that differs.
Validate(info) ==
    IF info.Signature1 # FSInfoSignature1 THEN "bad first signature"
    ELSE IF info.Signature2 # FSInfoSignature2 THEN "bad second signature"
    ELSE IF info.Signature3 # FSInfoSignature3 THEN "bad third signature"
    ELSE "nil"

\* binary.Read of count sectors at sector first of image img: it fails when
\* the image ends before the last of them.
Readable(img, first, count) == first + count <= img.sectors

\* ParseFAT32Header: the 512 bytes of sector 0 are decoded, and a header
\* whose BytesPerSector is not SectorSize is refused.
ParseFAT32Header(img) ==
    IF ~Readable(img, 0, 1) THEN [err |-> "read", header |-> "nil"]
    ELSE IF img.header.BPB.BytesPerSector # SectorSize
    THEN [err |-> "bytes per sector", header |-> "nil"]
    ELSE [err |-> "nil", header |-> img.header]

\* parseFSInfo: the sector FSInfoSector is decoded and validated; s.Info is
\* set when that succeeded.
parseFSInfo(img, header) ==
    IF ~Readable(img, header.EBR.FSInfoSector, 1)
    THEN [err |-> "read", Info |-> "nil"]
    ELSE IF Validate(img.info) # "nil"
    THEN [err |-> Validate(img.info), Info |-> "nil"]
    ELSE [err |-> "nil", Info |-> img.info]

\* loadFAT: SectorsPerFAT sectors from sector ReservedSectorCount on are read
\* as the table.
loadFAT(img, header) ==
    IF ~Readable(img, header.BPB.ReservedSectorCount, header.EBR.SectorsPerFAT)
    THEN [err |-> "read", FAT |-> <<>>]
    ELSE [err |-> "nil", FAT |-> img.table]

\* NewFAT32Filesystem(content): the error it returns and the
\* FAT32Filesystem it returns ("nil" with every error).
NewFAT32Filesystem(img) ==
    LET parsed == ParseFAT32Header(img)
    IN  IF parsed.err # "nil"
        THEN [err |-> "Error reading FAT32 header", fs |-> "nil"]
        ELSE LET info == parseFSInfo(img, parsed.header)
             IN  IF info.err # "nil"
                 THEN [err |-> "Error reading FSInfo block", fs |-> "nil"]
                 ELSE LET loaded == loadFAT(img, parsed.header)
                      IN  IF loaded.err # "nil"
                          THEN [err |-> "Error loading FAT", fs |-> "nil"]
                          ELSE [err |-> "nil",
                                fs |-> [Header |-> parsed.header,
                                        Info |-> info.Info,
                                        FAT |-> loaded.FAT]]

\* The header of sector 0: the fields of h, BytesPerSector and FSInfoSector.
HeaderOnDisk(h, bytesPerSector) ==
    [BPB |-> [BytesPerSector |-> bytesPerSector] @@ h.BPB,
     EBR |-> [FSInfoSector |-> 1] @@ h.EBR]

\* The FSInfo sectors of the images: each signature right or wrong.
FSInfoBlocks ==
    { [Signature1 |-> s1, Signature2 |-> s2, Signature3 |-> s3,
       LastKnownFreeCluster |-> U32(2), FirstAvailableClusterHint |-> U32(3)] :
        s1 \in {FSInfoSignature1, U32(0)},
        s2 \in {FSInfoSignature2, FSInfoSignature1},
        s3 \in {FSInfoSignature3, [hi |-> 5, lo |-> 173342720]} }

\* The tables of the images: no chain, or one chain of two clusters.
OpenTables(h) ==
    { EmptyTable(h),
      [EmptyTable(h) EXCEPT ![2] = U32(3), ![3] = U32(TwoTo28 - 1)] }

\* The images handed to NewFAT32Filesystem for a volume of header h: they
\* end after sector 0, after the FSInfo sector, or hold the whole volume.
Images(h) ==
    { [given |-> TRUE, header |-> HeaderOnDisk(h, bps), info |-> info,
       table |-> table, sectors |-> sectors] :
        bps \in {SectorSize, 2 * SectorSize}, info \in FSInfoBlocks,
        table \in OpenTables(h),
        sectors \in {1, 2, h.BPB.LargeSectorCount} }

\* Before NewFAT32Filesystem: no table is loaded, the source is at its start.
InitOpen ==
    /\ Header \in Headers
    /\ FAT = <<>>
    /\ chains = NoCall
    /\ cut = NoCut
    /\ opened = NoOpen
    /\ reader = NoReader
    /\ walker = NoReader
    /\ last = NoRead
    /\ reads = 0
    /\ offs = NoOffset
    /\ image \in Images(Header)
    /\ volume = NoVolume
    /\ cursor = Offset(0, 0)
    /\ sharers = <<>>

\* A call of NewFAT32Filesystem on the image.  The source is left behind the
\* last sector read.
NewFAT32FilesystemCall ==
    /\ ~volume.made
    /\ LET r == NewFAT32Filesystem(image)
       IN  /\ volume' = [made |-> TRUE, err |-> r.err, fs |-> r.fs]
           /\ FAT' = IF r.err = "nil" THEN r.fs.FAT ELSE FAT
           /\ cursor' =
                IF ParseFAT32Header(image).err # "nil"
                THEN Offset(IF Readable(image, 0, 1) THEN 1 ELSE 0, 0)
                ELSE IF parseFSInfo(image, image.header).err # "nil"
                THEN Offset(IF Readable(image, image.header.EBR.FSInfoSector, 1)
                            THEN image.header.EBR.FSInfoSector + 1
                            ELSE image.header.EBR.FSInfoSector, 0)
                ELSE IF r.err # "nil"
                THEN Offset(image.header.BPB.ReservedSectorCount, 0)
                ELSE AfterLoad(image.header)
    /\ UNCHANGED <<Header, chains, cut, opened, reader, walker, last, reads,
                   offs, image, sharers>>

NextOpen ==
    \/ NewFAT32FilesystemCall

SpecOpen == InitOpen /\ [][NextOpen]_vars

\* ------------------------------------- volumes of any accepted geometry

\* The headers ParseFAT32Header accepts, whatever their geometry: a cluster
\* of 0, 1 or 2 sectors, a table of 0 or 128 entries, and a sector count that
\* gives fewer or more clusters than the table has entries.
LooseHeaders ==
    { [BPB |-> [SectorsPerCluster |-> spc,
                ReservedSectorCount |-> 2,
                FATCount |-> 2,
                LargeSectorCount |-> lsc],
       EBR |-> [SectorsPerFAT |-> spf]] :
        spc \in {0, 1, 2}, lsc \in {2, 10, 129, 300}, spf \in {0, 1} }

\* The tables of these volumes: the entries of clusters 2, 3 and 4, where
\* the table has them, are free, a link to cluster 3, a link to cluster 200
\* or the end mark 0x0fffffff; every other entry is free.
LooseTables(h) ==
    { [i \in 0..(FATEntryCount(h) - 1) |->
          IF i \in 2..4 THEN data[i] ELSE U32(0)] :
        data \in IF FATEntryCount(h) = 0
                 THEN {[i \in 2..4 |-> U32(0)]}
                 ELSE [2..4 -> {U32(0), U32(3), U32(200), U32(TwoTo28 - 1)}] }

\* The images of these volumes: a header with 512 bytes per sector, a valid
\* FSInfo block, the table, and every sector the header counts.
LooseImages(h) ==
    { [given |-> TRUE, header |-> HeaderOnDisk(h, SectorSize),
       info |-> [Signature1 |-> FSInfoSignature1,
                 Signature2 |-> FSInfoSignature2,
                 Signature3 |-> FSInfoSignature3,
                 LastKnownFreeCluster |-> U32(2),
                 FirstAvailableClusterHint |-> U32(3)],
       table |-> table,
       sectors |-> h.BPB.ReservedSectorCount + h.EBR.SectorsPerFAT
                       + h.BPB.LargeSectorCount] :
        table \in LooseTables(h) }

InitLoose ==
    /\ Header \in LooseHeaders
    /\ FAT = <<>>
    /\ chains = NoCall
    /\ cut = NoCut
    /\ opened = NoOpen
    /\ reader = NoReader
    /\ walker = NoReader
    /\ last = NoRead
    /\ reads = 0
    /\ offs = NoOffset
    /\ image \in LooseImages(Header)
    /\ volume = NoVolume
    /\ cursor = Offset(0, 0)
    /\ sharers = <<>>

\* A call of GetAllChains on the volume NewFAT32Filesystem returned.
GetAllChainsOnVolume ==
    /\ volume.made
    /\ volume.err = "nil"
    /\ GetAllChainsCall

NextLoose ==
    \/ NewFAT32FilesystemCall
    \/ GetAllChainsOnVolume

SpecLoose == InitLoose /\ [][NextLoose]_vars

\* ------------------------------------------------------------------ claims

\* C1: on a table whose entries are each 0, a link to a data cluster or an
\* out-of-range end, GetAllChains marks a chain Contiguous exactly when every
\* cluster c on it, the end excluded, has table[c] = c + 1.
C1_ContiguousIffAllAdjacent ==
    (chains.called /\ WellFormedTable) =>
        /\ chains.err = "nil"
        /\ \A k \in ChainIndexes :
             LET run == LinkedRun(chains.list[k].StartCluster)
             IN  /\ run # <<>>
                 /\ chains.list[k].Contiguous <=>
                        \A j \in 1..(Len(run) - 1) :
                            U32Is(FAT[run[j]], run[j] + 1)

\* A three-cluster chain whose first link is adjacent and whose second is
\* not was reported and marked not contiguous.
C1_Witness ==
    /\ Returned
    /\ WellFormedTable
    /\ \E k \in ChainIndexes :
         LET c == chains.list[k]
         IN  /\ Len(LinkedRun(c.StartCluster)) = 3
             /\ U32Is(FAT[c.StartCluster], c.StartCluster + 1)
             /\ ~c.Contiguous

\* C2: GetAllChains returns one chain per chain end, and the k-th chain of
\* the list is the one that ends at the k-th chain end in ascending order.
C2_OneChainPerEndInOrder ==
    chains.called =>
        /\ chains.err = "nil"
        /\ Len(chains.list) = Cardinality(ChainEnds)
        /\ \A k \in ChainIndexes :
             LET run == LinkedRun(chains.list[k].StartCluster)
             IN  /\ run # <<>>
                 /\ run[Len(run)] = KthEnd(k)

\* Two chains were returned, and the first one starts at a higher cluster
\* than the second: the order is that of the ends, not of the starts.
C2_Witness ==
    /\ Returned
    /\ Len(chains.list) >= 2
    /\ chains.list[1].StartCluster > chains.list[2].StartCluster

\* C5: the Size of every returned chain is the number of clusters from its
\* StartCluster to its end, both included, times SectorsPerCluster times 512:
\* a positive whole multiple of the cluster size.
C5_SizeIsClustersTimesClusterSize ==
    chains.called =>
        \A k \in ChainIndexes :
            LET c == chains.list[k]
                run == LinkedRun(c.StartCluster)
            IN  /\ c.Size = Len(run) * Header.BPB.SectorsPerCluster * SectorSize
                /\ c.Size > 0
                /\ c.Size % GetClusterSize(Header) = 0

\* A chain of three clusters of two sectors each was returned.
C5_Witness ==
    /\ Returned
    /\ Header.BPB.SectorsPerCluster = 2
    /\ \E k \in ChainIndexes :
         /\ Len(LinkedRun(chains.list[k].StartCluster)) = 3
         /\ chains.list[k].Size = 3 * 2 * SectorSize

\* C6: no returned chain starts at cluster 0 or 1, whatever the table holds.
C6_NoChainStartsAtReservedCluster ==
    chains.called =>
        \A k \in ChainIndexes : chains.list[k].StartCluster \notin {0, 1}

\* Chains were returned for a table in which entry 0 has an end-of-chain
\* value, entry 1 is a link and some data cluster's entry is 1.
C6_Witness ==
    /\ Returned
    /\ Len(chains.list) >= 1
    /\ Low28(FAT[0]) >= ClusterCount(Header)
    /\ \E i \in 2..(ClusterCount(Header) - 1) : FAT[i] = U32(1)
\* The sizes of the chains of list, in clusters, summed.
RECURSIVE SumOfSizesInClusters(_)
SumOfSizesInClusters(list) ==
    IF list = <<>> THEN 0
    ELSE Head(list).Size \div GetClusterSize(Header)
             + SumOfSizesInClusters(Tail(list))

\* The data clusters from which following the links reaches a chain end
\* (their entries are not 0).
ReachingAnEnd ==
    { i \in 2..(ClusterCount(Header) - 1) : LinkedRun(i) # <<>> }

\* No two data clusters link to the same successor.
NoSharedSuccessor ==
    \A i, j \in 2..(ClusterCount(Header) - 1) :
        (i # j /\ Low28(FAT[i]) = Low28(FAT[j]))
            => (Low28(FAT[i]) = 0 \/ Low28(FAT[i]) >= ClusterCount(Header))

\* C3, as claimed: on a table whose entries are each 0, a link or an
\* out-of-range end, where several clusters may link to the same successor,
\* the sizes of the returned chains sum, in clusters, to the number of data
\* clusters with a non-zero entry from which the links reach a chain end.
C3_Claimed_SizesSumToReachable ==
    (Returned /\ WellFormedTable) =>
        SumOfSizesInClusters(chains.list) = Cardinality(ReachingAnEnd)

\* C3, amended: the same, on the tables in which no two clusters link to
\* the same successor.
C3_SizesSumToReachableWhenLinksAreUnique ==
    (chains.called /\ WellFormedTable /\ NoSharedSuccessor) =>
        /\ chains.err = "nil"
        /\ SumOfSizesInClusters(chains.list) = Cardinality(ReachingAnEnd)

\* Chains were returned for a table with unique successors that holds a
\* chain of two clusters or more and a cluster whose links reach no end.
C3_Witness ==
    /\ Returned
    /\ WellFormedTable
    /\ NoSharedSuccessor
    /\ \E k \in ChainIndexes : chains.list[k].Size > GetClusterSize(Header)
    /\ \E i \in 2..(ClusterCount(Header) - 1) :
          FAT[i] # U32(0) /\ i \notin ReachingAnEnd

\* The n clusters met from c by following the links (low 28 bits).
RECURSIVE FollowLinks(_, _)
FollowLinks(c, n) ==
    IF n = 0 \/ c \notin DOMAIN FAT THEN <<>>
    ELSE <<c>> \o FollowLinks(Low28(FAT[c]), n - 1)

\* The clusters of returned chain k: as many as its Size says, from its
\* StartCluster on.
RunOfChain(k) ==
    FollowLinks(chains.list[k].StartCluster,
                chains.list[k].Size \div GetClusterSize(Header))

ClustersOf(run) == { run[j] : j \in 1..Len(run) }

\* C4, as claimed: after a middle entry of a linked run was replaced by 0,
\* GetAllChains returns without error and reports two chains for the run: one
\* for the clusters before the zeroed entry, one for the clusters after it.
C4_Claimed_TwoChainsAroundZero ==
    (cut.made /\ chains.called) =>
        /\ chains.err = "nil"
        /\ \E kb, ka \in ChainIndexes :
             /\ kb # ka
             /\ chains.list[kb].StartCluster = cut.before[1]
             /\ cut.after[Len(cut.after)] \in ClustersOf(RunOfChain(ka))

\* C4, amended: GetAllChains returns without error and the 0 breaks the run,
\* but only the part after it is reported: the clusters after the zeroed
\* entry lie on exactly one returned chain, which ends with them, and neither
\* the zeroed cluster nor any cluster before it lies on a returned chain.
C4_OnlyThePartAfterZeroIsReported ==
    (cut.made /\ chains.called) =>
        /\ chains.err = "nil"
        /\ Cardinality({ k \in ChainIndexes :
               /\ Len(RunOfChain(k)) >= Len(cut.after)
               /\ SubSeq(RunOfChain(k),
                         Len(RunOfChain(k)) - Len(cut.after) + 1,
                         Len(RunOfChain(k))) = cut.after }) = 1
        /\ \A k \in ChainIndexes :
               ClustersOf(RunOfChain(k))
                   \cap (ClustersOf(cut.before) \cup {cut.zeroed}) = {}

\* The chains were reconstructed after a middle entry of a run was zeroed.
C4_Witness ==
    /\ cut.made
    /\ Returned
    /\ FAT[cut.zeroed] = U32(0)
    /\ Len(cut.before) >= 1
    /\ Len(cut.after) >= 1

\* The table with the top 4 bits of every entry cleared.
ClearHigh(fat) == [i \in DOMAIN fat |-> U32(Low28(fat[i]))]

\* C7, as claimed (its part on GetAllChains): a table and the table with the
\* top 4 bits of its entries cleared yield the same list of chains.
C7_Claimed_HighBitsIgnored ==
    chains.called =>
        /\ chains.err = GetAllChains(Header, ClearHigh(FAT)).err
        /\ chains.list = GetAllChains(Header, ClearHigh(FAT)).list
\* The bytes of runs as maximal runs: neighbours that continue one another
\* in the image are joined.
RECURSIVE Joined(_)
Joined(runs) ==
    IF Len(runs) <= 1 THEN runs
    ELSE LET rest == Joined(Tail(runs))
             a == Head(runs)
             b == Head(rest)
         IN  IF OffsetAdd(a[1], a[2]) = b[1]
             THEN << <<a[1], a[2] + b[2]>> >> \o Tail(rest)
             ELSE <<a>> \o rest

\* The first n bytes of runs.
RECURSIVE FirstBytes(_, _)
FirstBytes(runs, n) ==
    IF n <= 0 \/ runs = <<>> THEN <<>>
    ELSE IF Head(runs)[2] >= n THEN << <<Head(runs)[1], n>> >>
    ELSE <<Head(runs)>> \o FirstBytes(Tail(runs), n - Head(runs)[2])

\* The bytes a Read call handed to its caller: dst[0:n].
BytesReturned(ret) == Joined(FirstBytes(ret.runs, ret.n))

\* C8, as claimed: for a contiguous chain and every sequence of buffer
\* sizes, each Read of the fast path (the window) yields the very bytes that
\* the same Read of the cluster-walking chainReader over that chain yields.
C8_Claimed_FastPathEqualsWalker ==
    (last.made /\ last.before.kind = "window" /\ opened.chain.Contiguous) =>
        /\ last.outW.err # "panic"
        /\ last.outW.n = last.out.n
        /\ BytesReturned(last.outW) = BytesReturned(last.out)

\* C9, as claimed: a Read of the cluster-walking reader whose request goes
\* past the chain's size returns the bytes left up to the size together with
\* the end-of-stream signal; a Read that stays within the size returns no
\* end-of-stream signal.
C9_Claimed_EndOfStreamOnTheSameCall ==
    (last.made /\ last.before.kind = "chain") =>
        LET remaining == opened.chain.Size - last.before.readOffset
        IN  /\ last.bufLen > remaining =>
                (last.out.n = remaining /\ last.out.err = "EOF")
            /\ last.bufLen <= remaining => last.out.err # "EOF"

\* C10, as claimed: GetDataOffset, and GetChainReader which uses it, reject
\* the cluster numbers 0 and 1 and those >= 0x0ffffff7 with an error.
C10_Claimed_InvalidClustersRejected ==
    /\ (offs.made /\ InvalidCluster(offs.c)) => offs.rejected
    /\ (opened.made /\ InvalidCluster(opened.chain.StartCluster)) =>
           opened.err # "nil"

\* The image holds a readable header with 512 bytes per sector and its table
\* lies within it.
ValidHeaderAndTable ==
    /\ image.header.BPB.BytesPerSector = SectorSize
    /\ Readable(image, image.header.BPB.ReservedSectorCount,
                image.header.EBR.SectorsPerFAT)

\* C11, as claimed: NewFAT32Filesystem on an image whose header is valid and
\* whose FSInfo block has a wrong signature succeeds: the volume is
\* constructed without FSInfo and its allocation table is loaded.
C11_Claimed_OpensWithoutFSInfo ==
    (volume.made /\ ValidHeaderAndTable /\ Validate(image.info) # "nil") =>
        /\ volume.err = "nil"
        /\ volume.fs # "nil"
        /\ volume.fs.Info = "nil"
        /\ FAT = image.table

\* C12: LimitReadSeeker(source, base, limit) fails for every pair with
\* limit <= base, on the image and on a window, and returns no reader then.
C12_EmptyOrInvertedWindowFails ==
    (opened.made /\ opened.limit <= opened.base) =>
        /\ opened.err # "nil"
        /\ opened.reader = NoReader

\* An empty window (limit = base) was asked for on the image and refused.
C12_Witness ==
    /\ opened.made
    /\ opened.source = ImageSource
    /\ opened.limit = opened.base
    /\ opened.err = "bounds"

\* C13: a Read on a window of size N at offset p with a buffer longer than
\* N - p returns exactly the N - p bytes left, those of the source at
\* base + p .. base + N - 1, and the end-of-stream signal on the same call.
C13_ReadPastEndReturnsTheRest ==
    (last.made /\ last.op = "read"
        /\ last.bufLen > last.before.size - last.before.cur) =>
        LET rest == last.before.size - last.before.cur
        IN  /\ last.out.n = rest
            /\ last.out.err = "EOF"
            /\ BytesReturned(last.out) =
                   IF rest = 0 THEN <<>>
                   ELSE << <<OffsetAdd(last.before.base, last.before.cur),
                             rest>> >>

\* A 10-byte Read at offset 2 of a 5-byte window returned its last 3 bytes.
C13_Witness ==
    /\ last.made
    /\ last.op = "read"
    /\ last.bufLen = 10
    /\ last.before.size = 5
    /\ last.before.cur = 2
    /\ last.out.n = 3
    /\ last.out.err = "EOF"

\* The bytes of window w lie within those of window outer.
WithinWindow(w, outer) ==
    /\ OffsetLeq(outer.base, w.base)
    /\ OffsetLeq(OffsetAdd(w.base, w.size), OffsetAdd(outer.base, outer.size))

C15_NestedWindowIsTheDirectWindow ==
    (opened.made /\ opened.err = "nil" /\ opened.source.kind = "window") =>
        /\ reader.source = ImageSource
        /\ reader.base = OffsetAdd(opened.source.base, opened.base)
        /\ reader = walker
        /\ last.made => last.out = last.outW
        /\ (last.made /\ last.op = "read" /\ last.before.cur = 0) =>
               Head(last.out.runs)[1] =
                   OffsetAdd(opened.source.base, opened.base)

\* The window [1, 20) on the window [3, 30) was read at its offset 0: the 3
\* bytes at offset 4 of the image.
C15_Witness ==
    /\ opened.made
    /\ opened.err = "nil"
    /\ opened.source.kind = "window"
    /\ opened.source.base = Offset(0, 3)
    /\ opened.base = 1
    /\ opened.limit = 20
    /\ last.made
    /\ last.op = "read"
    /\ last.out.runs = << <<Offset(0, 4), 3>> >>

\* The bytes of run lie within those of window w.
RunWithinWindow(run, w) ==
    /\ OffsetLeq(w.base, run[1])
    /\ OffsetLeq(OffsetAdd(run[1], run[2]), OffsetAdd(w.base, w.size))

\* C16, as claimed: after every sequence of Seek and Read calls on a window,
\* 0 <= current offset <= size, and no Read has read a byte of the source
\* outside the window.
C16_Claimed_OffsetAndAccessStayInside ==
    reader.kind = "window" =>
        /\ 0 <= reader.cur
        /\ reader.cur <= reader.size
        /\ (last.made /\ last.op = "read") =>
               \A j \in 1..Len(last.out.runs) :
                   RunWithinWindow(last.out.runs[j], last.before)

\* C17: a Seek whose candidate offset is at or past the window's size
\* returns position size with the end-of-stream signal and no other error,
\* and leaves the window at its size; a Read that follows it returns no byte
\* and the end-of-stream signal.
C17_SeekPastEndIsEndOfStream ==
    /\ (last.made /\ last.op = "seek"
           /\ last.candidate >= last.before.size) =>
           /\ last.out.pos = last.before.size
           /\ last.out.err = "EOF"
           /\ reader.cur = reader.size
    /\ (last.made /\ last.op = "read" /\ last.afterSeekPastEnd) =>
           /\ last.out.n = 0
           /\ last.out.err = "EOF"
           /\ last.out.runs = <<>>

\* A Read followed a Seek to the very size of the window and returned the
\* end-of-stream signal.
C17_Witness ==
    /\ last.made
    /\ last.op = "read"
    /\ last.afterSeekPastEnd
    /\ last.before.cur = last.before.size
    /\ last.out.err = "EOF"

\* C18: with several readers on one source and their Read calls interleaved
\* in any order, every Read returns the count, the error and the bytes that
\* the same Read returns on the reader that has the source to itself, and
\* the two readers stay in the same state.
C18_SharedReadersReadAsIfAlone ==
    /\ last.made => last.out = last.outW
    /\ \A i \in 1..Len(sharers) : sharers[i].reader = sharers[i].alone

\* A cluster-walking reader returned bytes from a source that a window on
\* the same source had moved since the reader's last Read.
C18_Witness ==
    /\ last.made
    /\ Len(sharers) = 2
    /\ last.before.kind = "chain"
    /\ last.before.readOffset > 0
    /\ last.cursorBefore # last.posBefore
    /\ last.out.n > 0
    /\ \E j \in 1..2 : sharers[j].reader.kind = "window"
                          /\ sharers[j].reader.cur > 0

\* The table value v is free (0) or at least clusterCount: no link to a
\* cluster of the volume.
NoValidLink(v) == U32Is(v, 0) \/ ~U32Less(v, ClusterCount(Header))

\* The cluster whose data the run of bytes starts in.
ClusterOfRun(run) ==
    ((run[1].sector - GetDataOffset(Header, 2, 0).sector)
         \div Header.BPB.SectorsPerCluster) + 2

\* C19, as claimed: when a Read of the cluster-walking reader that returns
\* has exhausted a cluster with bytes still owed and the table entry of that
\* cluster is 0 or >= clusterCount, it returns an internal error, and it
\* reads no other cluster after a cluster with such an entry.
C19_Claimed_InvalidLinkIsAnInternalError ==
    (last.made /\ last.before.kind = "chain" /\ last.out.err # "panic") =>
        LET clusterSize == GetClusterSize(Header)
            left == last.before.size - last.before.readOffset
            owed == IF left < last.bufLen THEN left ELSE last.bufLen
            inCluster == clusterSize - (last.before.readOffset % clusterSize)
        IN  /\ (owed > inCluster
                   /\ last.before.currentCluster \in DOMAIN FAT
                   /\ NoValidLink(FAT[last.before.currentCluster])) =>
                   last.out.err = "internal"
            /\ \A j \in 1..(Len(last.out.runs) - 1) :
                   LET c == ClusterOfRun(last.out.runs[j])
                   IN  c \in DOMAIN FAT => ~NoValidLink(FAT[c])

\* The number of bytes of runs.
RECURSIVE BytesOf(_)
BytesOf(runs) ==
    IF runs = <<>> THEN 0 ELSE Head(runs)[2] + BytesOf(Tail(runs))

\* C20, as claimed: every Read of the cluster-walking reader with a buffer
\* of length L returns a count n with 0 <= n <= L and n <= size - readOffset
\* (as before the call), writes no more than n bytes into the buffer, and
\* leaves readOffset <= size.
C20_Claimed_ReadStaysWithinBufferAndSize ==
    (last.made /\ last.before.kind = "chain") =>
        /\ last.out.err # "panic"
        /\ 0 <= last.out.n
        /\ last.out.n <= last.bufLen
        /\ last.out.n <= last.before.size - last.before.readOffset
        /\ BytesOf(last.out.runs) <= last.out.n
        /\ reader.readOffset <= reader.size

\* C21, as claimed: on every volume NewFAT32Filesystem returned, GetAllChains
\* ends without an index out of range and without a division by zero.
C21_Claimed_NoIndexOutOfRangeNoDivisionByZero ==
    (volume.made /\ volume.err = "nil" /\ chains.called) =>
        chains.err \notin {"index out of range", "integer divide by zero"}

\* C22: GetAllChains terminates on every table, with cycles, self-links and
\* shared successors among its links: no backward walk and no forward scan
\* runs out of steps, and no chain counts more clusters than the volume has
\* data clusters (no walk meets a cluster twice).
C22_GetAllChainsTerminates ==
    chains.called =>
        /\ chains.err # "hang"
        /\ \A k \in ChainIndexes :
               chains.list[k].Size
                   <= (ClusterCount(Header) - 2) * GetClusterSize(Header)

\* A call returned chains from a table where a cluster links to itself and
\* two clusters link to the same successor.
C22_Witness ==
    /\ Returned
    /\ cut = NoCut
    /\ Len(chains.list) >= 1
    /\ \E c \in 2..(ClusterCount(Header) - 1) : FAT[c] = U32(c)
    /\ \E i, j \in 2..(ClusterCount(Header) - 1) :
           /\ i # j
           /\ Low28(FAT[i]) = Low28(FAT[j])
           /\ Low28(FAT[i]) \in 2..(ClusterCount(Header) - 1)

\* The reversed table the first loop of GetAllChains builds from the table.
ReversedTable ==
    BuildReversed(FAT, 2, ClusterCount(Header),
                  [j \in DOMAIN FAT |-> NoPredecessor], 0).reversedFAT

\* The clusters of the backward path from cluster c: c, its predecessor in
\* the reversed table, and so on down to the cluster without one.
RECURSIVE BackwardPath(_, _)
BackwardPath(c, fuel) ==
    IF U32Less(ReversedTable[c], ClusterCount(Header)) /\ fuel > 0
    THEN <<c>> \o BackwardPath(Low28(ReversedTable[c]), fuel - 1)
    ELSE <<c>>

\* The backward path of the k-th returned chain, from its tail.
PathOfChain(k) == BackwardPath(KthEnd(k), ClusterCount(Header))

\* C23: the chains one GetAllChains call returns are pairwise disjoint: each
\* chain starts where the backward path of its tail ends, no cluster lies on
\* the backward paths of two chains, and no two chains share a StartCluster.
C23_ChainsArePairwiseDisjoint ==
    Returned =>
        /\ \A k \in ChainIndexes :
               chains.list[k].StartCluster
                   = PathOfChain(k)[Len(PathOfChain(k))]
        /\ \A k, l \in ChainIndexes :
               k # l =>
                   /\ ClustersOf(PathOfChain(k)) \cap ClustersOf(PathOfChain(l))
                          = {}
                   /\ chains.list[k].StartCluster # chains.list[l].StartCluster

\* Two chains were returned, and the backward path of one of them is longer
\* than one cluster and does not run over adjacent clusters.
C23_Witness ==
    /\ Returned
    /\ Len(chains.list) >= 2
    /\ \E k \in ChainIndexes :
           /\ Len(PathOfChain(k)) >= 2
           /\ PathOfChain(k)[2] # PathOfChain(k)[1] - 1

\* C24, as claimed: the reader of a non-contiguous chain reports the end of
\* the stream only when the bytes it has delivered add up to the chain's
\* 64-bit Size, sizes of 2^32 bytes and more included.
C24_Claimed_ReaderDeliversTheWholeSize ==
    (opened.made /\ ~opened.chain.Contiguous /\ last.made
         /\ last.before.kind = "chain" /\ last.out.err = "EOF") =>
        /\ opened.chain.SizeHigh = 0
        /\ reader.readOffset = opened.chain.Size

=============================================================================
